---- MODULE Spec2Model ----
(***************************************************************************)
(* Model of the parameter-optimization engine of src/optimize:             *)
(* OptimizerBase, HillClimbingOptimizer, GridSearchOptimizer and           *)
(* ScoreFunction.  Spec is an optimize call; CallSpec is a direct call of  *)
(* the score function (both modes) or of _clip_param.                      *)
(*                                                                         *)
(* Numbers: every parameter value, bound, step and multiplier is a         *)
(* fixed-point number in thousandths (1.0 is 1000, 0.05 is 50).  Scores    *)
(* are integers in the same unit.  float('-inf') is NegInf.                *)
(***************************************************************************)
EXTENDS Integers, Sequences, FiniteSets, TLC

\* ------------------------------------------------------------------ bounds
\* the small iteration budget the runs are explored with
MaxBudget == 3
\* the number of in-range starting positions tried for each parameter
NumStarts == 2
\* how far, in units, a processed metric lies from its baseline of 10
Change == 2
\* how many quarters of its range a clipped value lies outside the range
Overshoot == 2

\* ------------------------------------------------------- program constants
max_no_improvement == 10
hc_max_iterations == 100
gs_max_iterations == 500
coarse_divisions == 3
fine_divisions == 5
fine_range_factor == 300
step_decay == 950
min_step_factor == 100
NegInf == -100000000

\* ------------------------------------------------------- numeric helpers
Max(a, b) == IF a >= b THEN a ELSE b
Min(a, b) == IF a <= b THEN a ELSE b
Abs(a) == IF a >= 0 THEN a ELSE -a

\* Python int(x) on a float: truncation toward zero, result in whole units
PyInt(x) == IF x >= 0 THEN x \div 1000 ELSE -((-x) \div 1000)

\* Python round(x) with no digits: round half to even, result in whole units
PyRound(x) ==
    LET q == x \div 1000
        r == x % 1000
    IN  IF r < 500 THEN q
        ELSE IF r > 500 THEN q + 1
        ELSE IF q % 2 = 0 THEN q ELSE q + 1

\* range(a, b, s) for s > 0, as a sequence
PyRange(a, b, s) ==
    IF b <= a THEN <<>>
    ELSE [i \in 1..(((b - a - 1) \div s) + 1) |-> a + (i - 1) * s]

\* np.linspace(a, b, n): n evenly spaced values, the last one is b exactly
Linspace(a, b, n) ==
    [i \in 1..n |->
        IF n = 1 THEN a
        ELSE IF i = n THEN b
        ELSE a + ((i - 1) * (b - a)) \div (n - 1)]

\* np.linspace(0, len - 1, n, dtype=int), as 1-based indices
LinspaceIdx(len, n) ==
    [i \in 1..n |->
        IF n = 1 THEN 1 ELSE 1 + ((i - 1) * (len - 1)) \div (n - 1)]

\* ------------------------------------------------- the bounds registries
Bound(name, lo, hi, st) == [name |-> name, lo |-> lo, hi |-> hi, step |-> st]

\* PARAM_BOUNDS, the entries of the filters the runs use
PARAM_BOUNDS ==
    [Linewise |-> << Bound("window_size", 3000, 31000, 2000),
                     Bound("strength", 0, 1000, 50) >>,
     Anisotropic |-> << Bound("iterations", 5000, 30000, 5000),
                        Bound("kappa", 10000, 100000, 10000),
                        Bound("gamma", 50, 250, 50) >>,
     NLM |-> << Bound("h", 500, 15000, 500),
                Bound("templateWindowSize", 3000, 11000, 2000),
                Bound("searchWindowSize", 7000, 21000, 2000) >>]

\* a caller-supplied registry: one filter with one float parameter
UnitBounds == [F |-> << Bound("strength", 0, 1000, 100) >>]

\* a caller-supplied registry: one filter with two float parameters
PairBounds == [G |-> << Bound("alpha", 0, 1000, 100),
                        Bound("beta", 0, 1000, 100) >>]

\* a caller-supplied registry whose odd-only window has an even maximum
EvenMaxBounds == [Linewise |-> << Bound("window_size", 3000, 8000, 2000) >>]

HasParam(bounds, filter_name, param_name) ==
    /\ filter_name \in DOMAIN bounds
    /\ \E i \in 1..Len(bounds[filter_name]) :
          bounds[filter_name][i].name = param_name

\* OptimizerBase._get_param_range
get_param_range(bounds, filter_name, param_name) ==
    IF HasParam(bounds, filter_name, param_name)
    THEN LET i == CHOOSE j \in 1..Len(bounds[filter_name]) :
                      bounds[filter_name][j].name = param_name
         IN  bounds[filter_name][i]
    ELSE Bound(param_name, 0, 1000, 100)

\* a plausible slip: only the upper end of the range is enforced
clip_param_upper(bounds, filter_name, param_name, value) ==
    LET r == get_param_range(bounds, filter_name, param_name)
    IN  Min(r.hi, value)

\* OptimizerBase._clip_param
clip_param(bounds, filter_name, param_name, value) ==
    LET r == get_param_range(bounds, filter_name, param_name)
    IN  Max(r.lo, Min(r.hi, value))

\* OptimizerBase._copy_params
copy_params(params) ==
    [f \in DOMAIN params |-> [k \in DOMAIN params[f] |-> params[f][k]]]

\* a plausible slip: the "copy" is the very object it was asked to copy
AliasIdentity(id, live) == id

\* _copy_params builds new dicts: the identity of the object it returns is
\* none of the live ones
CopyIdentity(id, live) == CHOOSE n \in 1..4 : n \notin live

\* what a variable that refers to the object x_id holds after the object
\* target_id was written in place: the written contents if it is that object
AfterWrite(x, x_id, target_id, written) ==
    IF x_id = target_id THEN written ELSE x

\* a plausible slip: the fine phase starts from the coarse phase's best
PhaseStartScoreCarried(phase_name, coarse_score) ==
    IF phase_name = "Fine" THEN coarse_score ELSE NegInf

\* the phase-local best score before the first combination: float('-inf')
PhaseStartScore(phase_name, coarse_score) == NegInf

\* ------------------------------------------------- integer constraints
\* the name lists of hill_climbing.py
HCIntegerParams == {"window_size", "iterations", "num_notches", "d",
                    "templateWindowSize", "searchWindowSize", "order"}
HCOddParams == {"window_size", "templateWindowSize", "searchWindowSize"}
\* the name lists of grid_search.py
GSIntegerParams == {"window_size", "iterations", "num_notches", "d",
                    "templateWindowSize", "searchWindowSize", "order",
                    "psf_size"}
GSOddParams == {"window_size", "templateWindowSize", "searchWindowSize",
                "psf_size"}

\* a plausible slip: the result is rounded but parity is not repaired
IntegerAdjustNoOdd(param_name, new_val) ==
    IF param_name \in HCIntegerParams THEN PyRound(new_val) * 1000
    ELSE new_val

\* hill_climbing.py, "정수 파라미터 처리": int(round(v)), then +1 when even
IntegerAdjust(param_name, new_val) ==
    IF param_name \in HCIntegerParams
    THEN LET n == PyRound(new_val)
         IN  IF param_name \in HCOddParams /\ n % 2 = 0
             THEN (n + 1) * 1000
             ELSE n * 1000
    ELSE new_val

\* the candidate value of one direction of the coordinate search
HCCandidate(bounds, filter_name, param_name, current, direction, st) ==
    IntegerAdjust(param_name,
        clip_param(bounds, filter_name, param_name, current + direction * st))

\* a plausible slip: any different score replaces the best one
ImprovesAlways(test_score, best) == test_score # best

\* the acceptance test of both strategies: strictly better than the best
Improves(test_score, best) == test_score > best

\* a plausible slip: an equal score counts as an improvement
ImprovedOrEqual(best, initial) == best >= initial

\* OptimizationResult.improved as both strategies compute it
Improved(best, initial) == best > initial

\* ------------------------------------------------------------ the calls
\* the configurations of one optimize call: the optimizer and its
\* constructor arguments, the pipeline, and the collaborators' behaviour
Param1(n1, v1) == n1 :> v1
Param2(n1, v1, n2, v2) == (n1 :> v1) @@ (n2 :> v2)

\* the starting value of a parameter: an aligned in-range value (kind below
\* NumStarts), a value half a step off the grid, or a value above max
StartKinds == 0..(NumStarts + 1)
StartValue(b, kind) ==
    IF kind < NumStarts THEN b.lo + 2 * kind * b.step
    ELSE IF kind = NumStarts THEN b.lo + b.step \div 2
    ELSE b.hi + b.step

Scenario(bounds, filters, params) ==
    [param_bounds |-> bounds, pipeline_filters |-> filters,
     current_params |-> params]

Scenarios ==
    { Scenario(UnitBounds, << "F" >>,
        [F |-> Param1("strength", StartValue(UnitBounds.F[1], k))])
        : k \in StartKinds }
    \cup
    { Scenario(PARAM_BOUNDS, << "Linewise", "Anisotropic" >>,
        [Linewise |-> Param2("window_size",
                             StartValue(PARAM_BOUNDS.Linewise[1], k),
                             "direction", 0),
         Anisotropic |-> Param1("iterations",
                             StartValue(PARAM_BOUNDS.Anisotropic[1], k))])
        : k \in StartKinds }
    \cup
    { Scenario(PARAM_BOUNDS, << "Wiener", "Anisotropic", "NLM" >>,
        [Wiener |-> Param1("noise", 10),
         NLM |-> Param2("templateWindowSize",
                        StartValue(PARAM_BOUNDS.NLM[2], k),
                        "h", StartValue(PARAM_BOUNDS.NLM[1], k))])
        : k \in StartKinds }
    \cup
    { Scenario(PARAM_BOUNDS, << "Wiener" >>,
        [Wiener |-> Param1("noise", 10)]) }
    \cup
    { Scenario(PARAM_BOUNDS, << "Anisotropic" >>,
        [Anisotropic |-> Param1("iterations", 15000)]) }
    \cup
    { Scenario(PairBounds, << "G" >>,
        [G |-> Param2("alpha", 200, "beta", 800)]) }
    \cup
    { Scenario(EvenMaxBounds, << "Linewise" >>,
        [Linewise |-> Param1("window_size",
                             StartValue(EvenMaxBounds.Linewise[1], k))])
        : k \in StartKinds }

\* the scoring behaviour of the collaborators: a function of the parameter
\* assignment, either flat (the same score whatever the parameters) or with
\* a single peak at tenths/10 of each registered parameter's range
ScoreShapes ==
    { [kind |-> "flat", level |-> 40000, tenths |-> 0] }
    \cup { [kind |-> "peak", level |-> 0, tenths |-> t] : t \in {2, 7, 10} }

Budgets(kind) ==
    (1..MaxBudget)
    \cup (IF kind = "hill" THEN {hc_max_iterations} ELSE {gs_max_iterations})

Configs ==
    UNION { { [kind |-> kd, scenario |-> sc, max_iterations |-> mi,
                shape |-> sh, in_place |-> ip] :
                  sc \in Scenarios, mi \in Budgets(kd),
                  sh \in ScoreShapes, ip \in BOOLEAN }
            : kd \in {"hill", "grid"} }

\* ---------------------------------------------------------------- state
VARIABLES
    cfg,                  \* the optimizer's configuration and the call's arguments
    current_params,       \* the caller's parameter assignment
    pc,                   \* the position of the optimize call
    stop_requested,       \* OptimizerBase._stop_requested
    heap,                 \* the image objects: the caller's and the work copy
    best_params, best_score, initial_score, score_history, iteration,
    test_params,          \* the candidate under evaluation
    step_multipliers, no_improvement_count, improved,
    fi, pi, dir,          \* hill climbing: filter, parameter and direction index
    current_val, step,
    phase, param_names, param_values, comb,
    coarse_best_params, coarse_best_score, total_iterations,
    result,               \* the OptimizationResult returned, <<>> before
    evaluated_best,       \* the highest score of the candidates evaluated
    stop_in_eval,         \* stop() arrived while an evaluation was running
    late_evals,           \* candidate evaluations started after such a stop
    stop_seen,            \* a check of the flag has ended the search
    ident,                \* the dict object each assignment variable refers to
    phase_evaluated,      \* the candidates the current grid phase has evaluated
    raised,               \* a collaborator has raised during the call
    sweep_log,            \* hill climbing: the evaluations the sweep started
    call,                 \* a direct call of ScoreFunction or _clip_param
    call_pc,              \* how far that call has got
    quick,                \* what quick_score returned
    detailed,             \* the ScoreResult calculate_score returned
    clip_result           \* what _clip_param returned

baseVars == << cfg, current_params, stop_requested, heap >>
runVars == << best_params, best_score, initial_score, score_history,
              iteration, test_params >>
hcVars == << step_multipliers, no_improvement_count, improved, fi, pi, dir,
             current_val, step >>
gsVars == << phase, param_names, param_values, comb, coarse_best_params,
             coarse_best_score, total_iterations >>
obsVars == << evaluated_best, stop_in_eval, late_evals, stop_seen >>
callVars == << call, call_pc, quick, detailed, clip_result >>
vars == << baseVars, pc, runVars, hcVars, gsVars, result, obsVars, ident,
           phase_evaluated, raised, sweep_log, callVars >>

bounds == cfg.scenario.param_bounds
pipeline_filters == cfg.scenario.pipeline_filters

\* ------------------------------------------------------- the collaborators
\* the score of one registered parameter value under the call's score shape
PairScore(b, v) ==
    IF cfg.shape.kind = "flat" THEN 0
    ELSE 0 - Abs(v - (b.lo + ((b.hi - b.lo) * cfg.shape.tenths) \div 10))

RECURSIVE FilterScore(_, _, _)
FilterScore(bs, i, fparams) ==
    IF i > Len(bs) THEN 0
    ELSE (IF bs[i].name \in DOMAIN fparams
          THEN PairScore(bs[i], fparams[bs[i].name]) ELSE 0)
         + FilterScore(bs, i + 1, fparams)

\* quick_score(original_metrics, analyze_func(processed)) as a function of
\* the parameters the pipeline was applied with
RECURSIVE Score(_, _)
Score(params, i) ==
    IF i > Len(pipeline_filters) THEN 0
    ELSE LET f == pipeline_filters[i]
         IN  (IF f \in DOMAIN params /\ f \in DOMAIN bounds
              THEN FilterScore(bounds[f], 1, params[f]) ELSE 0)
             + Score(params, i + 1)

\* apply_filter_func(image, filter_name, params): it returns a new image, or
\* overwrites its argument and returns it
apply_filter_func(h, ref) ==
    IF cfg.in_place
    THEN [heap |-> [h EXCEPT ![ref] = "filtered",
                             !.passed = @ \cup {ref}], ref |-> ref]
    ELSE [heap |-> [h EXCEPT !.out = "filtered",
                             !.passed = @ \cup {ref}], ref |-> "out"]

\* a plausible slip: the pipeline works on the caller's image itself
ImageAlias(h, ref) == [heap |-> h, ref |-> ref]

\* image.copy(): a new object with the contents of the image
ImageCopy(h, ref) == [heap |-> [h EXCEPT !.work = h[ref]], ref |-> "work"]

RECURSIVE ApplyPipeline(_, _, _, _)
ApplyPipeline(h, ref, params, i) ==
    IF i > Len(pipeline_filters) THEN h
    ELSE IF pipeline_filters[i] \in DOMAIN params
         THEN LET r == apply_filter_func(h, ref)
              IN  ApplyPipeline(r.heap, r.ref, params, i + 1)
         ELSE ApplyPipeline(h, ref, params, i + 1)

\* OptimizerBase._evaluate: the image objects after the evaluation
EvaluateHeap(h, params) ==
    LET c == ImageCopy(h, "caller")
    IN  ApplyPipeline(c.heap, c.ref, params, 1)

\* OptimizerBase._evaluate: the score it returns
evaluate(params) == cfg.shape.level + Score(params, 1)

\* ----------------------------------------------------------------- Init
\* the optimizer before optimize is called
OptimizerConstructed ==
    /\ current_params = cfg.scenario.current_params
    /\ pc = "idle"
    /\ stop_requested = FALSE
    /\ heap = [caller |-> "orig", work |-> "none", out |-> "none",
               passed |-> {}]
    /\ best_params = << >>
    /\ best_score = 0
    /\ initial_score = 0
    /\ score_history = << >>
    /\ iteration = 0
    /\ test_params = << >>
    /\ step_multipliers = << >>
    /\ no_improvement_count = 0
    /\ improved = FALSE
    /\ fi = 1 /\ pi = 1 /\ dir = 1
    /\ current_val = 0 /\ step = 0
    /\ phase = "none"
    /\ param_names = << >> /\ param_values = << >> /\ comb = 0
    /\ coarse_best_params = << >> /\ coarse_best_score = 0
    /\ total_iterations = 0
    /\ result = << >>
    /\ evaluated_best = NegInf
    /\ stop_in_eval = FALSE
    /\ late_evals = 0
    /\ stop_seen = FALSE
    /\ ident = [current |-> 0, best |-> -1, test |-> -1, coarse |-> -1]
    /\ phase_evaluated = << >>
    /\ raised = FALSE
    /\ sweep_log = << >>

\* no direct call of the score function or of _clip_param is made
NoCall ==
    /\ call = [fn |-> "none"]
    /\ call_pc = "none"
    /\ quick = [failed |-> FALSE, value |-> 0]
    /\ detailed = << >>
    /\ clip_result = 0

Init ==
    /\ cfg \in Configs
    /\ OptimizerConstructed
    /\ NoCall

\* OptimizerBase.stop, called from another thread at any moment
Stop ==
    /\ pc \notin {"done", "raised"}
    /\ ~stop_requested
    /\ stop_requested' = TRUE
    /\ stop_in_eval' =
          (pc \in {"hc_initial", "hc_eval", "gs_initial", "gs_eval"})
    /\ UNCHANGED << callVars, raised, sweep_log, ident, phase_evaluated,
                    cfg, current_params, heap, pc, runVars, hcVars, gsVars,
                    result, evaluated_best, late_evals, stop_seen >>

\* -------------------------------------------------------- hill climbing
RangeOf(seq) == { seq[i] : i \in 1..Len(seq) }
ParamNamesOf(filter_name) ==
    IF filter_name \in DOMAIN bounds
    THEN { bounds[filter_name][i].name : i \in 1..Len(bounds[filter_name]) }
    ELSE {}

\* the record both strategies return
OptimizationResult(params, score, initial, iters, history) ==
    [best_params |-> params, best_score |-> score, initial_score |-> initial,
     iterations |-> iters, score_history |-> history,
     improved |-> Improved(score, initial)]

\* the loop condition on the budget, without <=
BudgetLeftInclusive(iters, max_iters) == iters <= max_iters
\* the loop condition on the budget: iteration < self.max_iterations
BudgetLeft(iters, max_iters) == iters < max_iters

\* for direction in [-1, 1]
DirectionOfReversed(d) == IF d = 1 THEN -1 ELSE 1
\* for direction in [1, -1]: the d-th direction tried
DirectionOf(d) == IF d = 1 THEN 1 ELSE -1

\* optimize is entered on the worker's thread: the call has been made and
\* its first statement (the time stamp) has run, the flag is not yet reset
Invoke ==
    /\ pc = "idle"
    /\ pc' = "entered"
    /\ UNCHANGED << baseVars, runVars, hcVars, gsVars, result, obsVars,
                    ident, phase_evaluated, raised, sweep_log, callVars >>

\* optimize, up to the copy of the current parameters
HCOptimize ==
    /\ pc = "entered"
    /\ cfg.kind = "hill"
    /\ stop_requested' = FALSE
    /\ best_params' = copy_params(current_params)
    /\ ident' = [ident EXCEPT
                   !.best = CopyIdentity(ident.current, {ident.current})]
    /\ stop_in_eval' = FALSE
    /\ late_evals' = 0
    /\ pc' = "hc_initial"
    /\ UNCHANGED << callVars, raised, sweep_log, phase_evaluated,
                    cfg, current_params, heap, best_score, initial_score,
                    score_history, iteration, test_params, hcVars, gsVars,
                    result, evaluated_best, stop_seen >>

\* the initial evaluation and the set-up of the loop
HCInitialEvaluate ==
    /\ pc = "hc_initial"
    /\ initial_score' = evaluate(best_params)
    /\ heap' = EvaluateHeap(heap, best_params)
    /\ best_score' = initial_score'
    /\ score_history' = << initial_score' >>
    /\ iteration' = 0
    /\ step_multipliers' =
          [f \in RangeOf(pipeline_filters) |->
              [p \in ParamNamesOf(f) |-> 1000]]
    /\ no_improvement_count' = 0
    /\ pc' = "hc_while"
    /\ UNCHANGED << callVars, raised, sweep_log, ident, phase_evaluated,
                    cfg, current_params, stop_requested, best_params,
                    test_params, improved, fi, pi, dir, current_val, step,
                    gsVars, result, obsVars >>

\* the loop condition: budget left and no stop requested
HCWhile ==
    /\ pc = "hc_while"
    /\ IF BudgetLeft(iteration, cfg.max_iterations) /\ ~stop_requested
       THEN /\ improved' = FALSE
            /\ fi' = 1
            /\ pi' = 1
            /\ sweep_log' = << >>
            /\ pc' = "hc_param"
            /\ UNCHANGED stop_seen
       ELSE /\ pc' = "hc_return"
            /\ stop_seen' = (stop_seen \/ stop_requested)
            /\ UNCHANGED << improved, fi, pi, sweep_log >>
    /\ UNCHANGED << callVars, raised, ident, phase_evaluated,
                    baseVars, runVars, step_multipliers,
                    no_improvement_count, dir, current_val, step, gsVars,
                    result, evaluated_best, stop_in_eval, late_evals >>

\* the head of the two nested loops over the (filter, parameter) pairs
HCParam ==
    /\ pc = "hc_param"
    /\ IF fi > Len(pipeline_filters)
       THEN /\ pc' = "hc_sweep"
            /\ UNCHANGED << fi, pi, dir, current_val, step, stop_seen >>
       ELSE LET f == pipeline_filters[fi] IN
            IF f \notin DOMAIN bounds \/ f \notin DOMAIN best_params
            THEN /\ fi' = fi + 1
                 /\ pi' = 1
                 /\ UNCHANGED << pc, dir, current_val, step, stop_seen >>
            ELSE IF pi > Len(bounds[f])
            THEN /\ fi' = fi + 1
                 /\ pi' = 1
                 /\ UNCHANGED << pc, dir, current_val, step, stop_seen >>
            ELSE IF bounds[f][pi].name \notin DOMAIN best_params[f]
            THEN /\ pi' = pi + 1
                 /\ UNCHANGED << pc, fi, dir, current_val, step, stop_seen >>
            ELSE IF stop_requested
            THEN /\ fi' = fi + 1
                 /\ pi' = 1
                 /\ stop_seen' = TRUE
                 /\ UNCHANGED << pc, dir, current_val, step >>
            ELSE LET p == bounds[f][pi].name
                     r == get_param_range(bounds, f, p)
                 IN  /\ current_val' = best_params[f][p]
                     /\ step' = (r.step * step_multipliers[f][p]) \div 1000
                     /\ dir' = 1
                     /\ pc' = "hc_dir"
                     /\ UNCHANGED << fi, pi, stop_seen >>
    /\ UNCHANGED << callVars, raised, sweep_log, ident, phase_evaluated,
                    baseVars, runVars, step_multipliers,
                    no_improvement_count, improved, gsVars, result,
                    evaluated_best, stop_in_eval, late_evals >>

\* one direction of the pair: the candidate is built and its evaluation starts
HCDirection ==
    /\ pc = "hc_dir"
    /\ IF dir > 2
       THEN /\ pi' = pi + 1
            /\ pc' = "hc_param"
            /\ UNCHANGED << dir, test_params, stop_in_eval, late_evals,
                            ident, best_params, current_params, sweep_log >>
       ELSE LET f == pipeline_filters[fi]
                p == bounds[f][pi].name
                new_val == HCCandidate(bounds, f, p, current_val,
                                       DirectionOf(dir), step)
            IN  IF new_val = current_val
                THEN /\ dir' = dir + 1
                     /\ UNCHANGED << pc, pi, test_params, stop_in_eval,
                                     late_evals, ident, best_params,
                                     current_params, sweep_log >>
                ELSE LET t == CopyIdentity(ident.best,
                                           {ident.current, ident.best})
                         written == [copy_params(best_params)
                                        EXCEPT ![f][p] = new_val]
                     IN
                     /\ test_params' = written
                     /\ ident' = [ident EXCEPT !.test = t]
                     /\ best_params' =
                          AfterWrite(best_params, ident.best, t, written)
                     /\ current_params' =
                          AfterWrite(current_params, ident.current, t, written)
                     /\ late_evals' =
                          late_evals + (IF stop_in_eval THEN 1 ELSE 0)
                     /\ sweep_log' =
                          Append(sweep_log,
                                 [filter |-> f, param |-> p,
                                  direction |-> DirectionOf(dir),
                                  from |-> best_params, value |-> new_val])
                     /\ pc' = "hc_eval"
                     /\ UNCHANGED << dir, pi, stop_in_eval >>
    /\ UNCHANGED << callVars, raised, phase_evaluated,
                    cfg, stop_requested, heap, best_score, initial_score,
                    score_history, iteration, step_multipliers,
                    no_improvement_count, improved, fi, current_val, step,
                    gsVars, result, evaluated_best, stop_seen >>

\* the candidate's evaluation returns: accept it or try the other direction
HCEvaluated ==
    /\ pc = "hc_eval"
    /\ LET f == pipeline_filters[fi]
           p == bounds[f][pi].name
           test_score == evaluate(test_params)
       IN  /\ heap' = EvaluateHeap(heap, test_params)
           /\ evaluated_best' = Max(evaluated_best, test_score)
           /\ IF Improves(test_score, best_score)
              THEN /\ best_score' = test_score
                   /\ best_params' = test_params
                   /\ ident' = [ident EXCEPT !.best = ident.test]
                   /\ improved' = TRUE
                   /\ step_multipliers' =
                        [step_multipliers EXCEPT
                           ![f][p] = Min(1000, (@ * 1100) \div 1000)]
                   /\ pi' = pi + 1
                   /\ pc' = "hc_param"
                   /\ UNCHANGED dir
              ELSE /\ dir' = dir + 1
                   /\ pc' = "hc_dir"
                   /\ UNCHANGED << best_score, best_params, improved,
                                   step_multipliers, pi, ident >>
    /\ UNCHANGED << callVars, raised, sweep_log, phase_evaluated,
                    cfg, current_params, stop_requested, initial_score,
                    score_history, iteration, test_params,
                    no_improvement_count, fi, current_val, step, gsVars,
                    result, stop_in_eval, late_evals, stop_seen >>

\* the decay of a step multiplier without the floor
DecayedUnfloored(m) == (m * step_decay) \div 1000
\* max(self.min_step_factor, multiplier * self.step_decay)
Decayed(m) == Max(min_step_factor, (m * step_decay) \div 1000)

\* the streak counter when a sweep that accepted a candidate leaves it alone
NextStreakKept(accepted, count) == IF accepted THEN count ELSE count + 1
\* the streak counter after a sweep: reset by an acceptance, else one more
NextStreak(accepted, count) == IF accepted THEN 0 ELSE count + 1

\* the end of a sweep: history, streak counter and step decay
HCSweepEnd ==
    /\ pc = "hc_sweep"
    /\ iteration' = iteration + 1
    /\ score_history' = Append(score_history, best_score)
    /\ no_improvement_count' = NextStreak(improved, no_improvement_count)
    /\ IF improved
       THEN UNCHANGED step_multipliers
       ELSE step_multipliers' =
                 [f \in DOMAIN step_multipliers |->
                    [p \in DOMAIN step_multipliers[f] |->
                       Decayed(step_multipliers[f][p])]]
    /\ pc' = IF no_improvement_count' >= max_no_improvement
             THEN "hc_return" ELSE "hc_while"
    /\ UNCHANGED << callVars, raised, sweep_log, ident, phase_evaluated,
                    baseVars, best_params, best_score, initial_score,
                    test_params, improved, fi, pi, dir, current_val, step,
                    gsVars, result, obsVars >>

\* the result is built and returned
HCReturn ==
    /\ pc = "hc_return"
    /\ result' = OptimizationResult(best_params, best_score, initial_score,
                                    iteration, score_history)
    /\ pc' = "done"
    /\ UNCHANGED << callVars, raised, sweep_log, ident, phase_evaluated,
                    baseVars, runVars, hcVars, gsVars, obsVars >>

\* ---------------------------------------------------------- grid search
\* the odd elements of the sequence s, in order
RECURSIVE OddOnly(_)
OddOnly(s) ==
    IF s = << >> THEN << >>
    ELSE IF Head(s) % 2 = 1 THEN << Head(s) >> \o OddOnly(Tail(s))
    ELSE OddOnly(Tail(s))

\* _generate_grid_values, integer branch: the aligned values of the search
\* range, the odd ones only if required, subsampled to divisions values
SampleIntegers(param_name, search_min, search_max, base_step, divisions) ==
    LET all == PyRange(PyInt(search_min), PyInt(search_max) + 1,
                       Max(1, PyInt(base_step)))
        kept == IF param_name \in GSOddParams THEN OddOnly(all) ELSE all
        picked == IF Len(kept) > divisions
                  THEN [i \in 1..divisions |->
                           kept[LinspaceIdx(Len(kept), divisions)[i]]]
                  ELSE kept
    IN  [i \in 1..Len(picked) |-> picked[i] * 1000]

\* GridSearchOptimizer._generate_grid_values; center is << >> for None
generate_grid_values(filter_name, param_name, divisions, center, range_factor) ==
    LET r == get_param_range(bounds, filter_name, param_name)
        fine == center # << >> /\ range_factor < 1000
        search_range == ((r.hi - r.lo) * range_factor) \div 1000
        search_min == IF fine THEN Max(r.lo, center[1] - search_range \div 2)
                      ELSE r.lo
        search_max == IF fine THEN Min(r.hi, center[1] + search_range \div 2)
                      ELSE r.hi
    IN  IF param_name \in GSIntegerParams
        THEN SampleIntegers(param_name, search_min, search_max, r.step,
                            divisions)
        ELSE Linspace(search_min, search_max, divisions)

\* the (filter, parameter) pairs a phase searches, in pipeline and registry
\* order: registered pairs the caller's assignment has a value for
RECURSIVE ActivePairsOf(_, _)
ActivePairsOf(f, i) ==
    IF i > Len(bounds[f]) THEN << >>
    ELSE (IF f \in DOMAIN current_params
             /\ bounds[f][i].name \in DOMAIN current_params[f]
          THEN << << f, bounds[f][i].name >> >> ELSE << >>)
         \o ActivePairsOf(f, i + 1)

RECURSIVE ActivePairs(_)
ActivePairs(i) ==
    IF i > Len(pipeline_filters) THEN << >>
    ELSE (IF pipeline_filters[i] \in DOMAIN bounds
          THEN ActivePairsOf(pipeline_filters[i], 1) ELSE << >>)
         \o ActivePairs(i + 1)

\* the number of combinations of itertools.product over the grids
RECURSIVE TotalCombinations(_, _)
TotalCombinations(values, i) ==
    IF i > Len(values) THEN 1
    ELSE Len(values[i]) * TotalCombinations(values, i + 1)

\* a plausible slip: the grids are zipped, not multiplied
CombinationZipped(values, k) ==
    [j \in 1..Len(values) |-> values[j][1 + (k % Len(values[j]))]]

\* the k-th combination (from 0) of itertools.product: the last grid varies
\* fastest
Combination(values, k) ==
    [j \in 1..Len(values) |->
        values[j][1 + ((k \div TotalCombinations(values, j + 1))
                        % Len(values[j]))]]

\* a plausible slip: the candidate holds the searched parameters only
CandidateSearchedOnly(names, combination) ==
    [f \in { names[j][1] : j \in 1..Len(names) } |->
        [k \in { names[j][2] : j \in { n \in 1..Len(names) : names[n][1] = f } } |->
            combination[CHOOSE j \in 1..Len(names) : names[j] = << f, k >>]]]
\* the candidate of a combination: a copy of the caller's assignment with
\* every searched pair set
Candidate(names, combination) ==
    [f \in DOMAIN current_params |->
        [k \in DOMAIN current_params[f] |->
            IF \E j \in 1..Len(names) : names[j] = << f, k >>
            THEN combination[CHOOSE j \in 1..Len(names) : names[j] = << f, k >>]
            ELSE current_params[f][k]]]

\* optimize, up to the analysis of the original image
GSOptimize ==
    /\ pc = "entered"
    /\ cfg.kind = "grid"
    /\ stop_requested' = FALSE
    /\ stop_in_eval' = FALSE
    /\ late_evals' = 0
    /\ pc' = "gs_initial"
    /\ UNCHANGED << callVars, raised, sweep_log, ident, phase_evaluated,
                    cfg, current_params, heap, runVars, hcVars, gsVars,
                    result, evaluated_best, stop_seen >>

\* the initial evaluation of the caller's assignment
GSInitialEvaluate ==
    /\ pc = "gs_initial"
    /\ initial_score' = evaluate(current_params)
    /\ heap' = EvaluateHeap(heap, current_params)
    /\ score_history' = << initial_score' >>
    /\ total_iterations' = 0
    /\ phase' = "Coarse"
    /\ pc' = "gs_setup"
    /\ UNCHANGED << callVars, raised, sweep_log, ident, phase_evaluated,
                    cfg, current_params, stop_requested, best_params,
                    best_score, iteration, test_params, hcVars, param_names,
                    param_values, comb, coarse_best_params,
                    coarse_best_score, result, obsVars >>

\* _grid_search_phase up to its loop: the grids and the phase-local best
GSPhaseSetup ==
    /\ pc = "gs_setup"
    /\ LET names == ActivePairs(1)
           divisions == IF phase = "Coarse" THEN coarse_divisions
                        ELSE fine_divisions
           values == [j \in 1..Len(names) |->
                        generate_grid_values(names[j][1], names[j][2],
                            divisions,
                            IF phase = "Coarse" \/ DOMAIN coarse_best_params = {}
                            THEN << >>
                            ELSE << coarse_best_params[names[j][1]][names[j][2]] >>,
                            IF phase = "Coarse" THEN 1000
                            ELSE fine_range_factor)]
       IN  /\ param_names' = names
           /\ param_values' = values
           /\ IF Len(values) = 0
              THEN /\ best_params' = current_params
                   /\ ident' = [ident EXCEPT !.best = ident.current]
                   /\ best_score' = 0
                   /\ pc' = "gs_phase_end"
              ELSE /\ best_params' = copy_params(current_params)
                   /\ ident' = [ident EXCEPT
                                  !.best = CopyIdentity(ident.current,
                                      {ident.current, ident.coarse})]
                   /\ best_score' = PhaseStartScore(phase, coarse_best_score)
                   /\ pc' = "gs_loop"
    /\ phase_evaluated' = << >>
    /\ iteration' = 0
    /\ comb' = 0
    /\ UNCHANGED << callVars, raised, sweep_log,
                    baseVars, initial_score, score_history, test_params,
                    hcVars, phase, coarse_best_params, coarse_best_score,
                    total_iterations, result, obsVars >>

\* the head of the loop over the combinations: the stop check, then the
\* candidate is built and its evaluation starts
GSLoop ==
    /\ pc = "gs_loop"
    /\ IF comb >= TotalCombinations(param_values, 1)
       THEN /\ pc' = "gs_phase_end"
            /\ UNCHANGED << test_params, stop_in_eval, late_evals, stop_seen,
                            ident, best_params, current_params,
                            coarse_best_params >>
       ELSE IF stop_requested
       THEN /\ pc' = "gs_phase_end"
            /\ stop_seen' = TRUE
            /\ UNCHANGED << test_params, stop_in_eval, late_evals, ident,
                            best_params, current_params, coarse_best_params >>
       ELSE LET t == CopyIdentity(ident.current,
                        {ident.current, ident.best, ident.coarse})
                written == Candidate(param_names,
                                     Combination(param_values, comb))
            IN
            /\ test_params' = written
            /\ ident' = [ident EXCEPT !.test = t]
            /\ best_params' = AfterWrite(best_params, ident.best, t, written)
            /\ current_params' =
                 AfterWrite(current_params, ident.current, t, written)
            /\ coarse_best_params' =
                 AfterWrite(coarse_best_params, ident.coarse, t, written)
            /\ late_evals' = late_evals + (IF stop_in_eval THEN 1 ELSE 0)
            /\ pc' = "gs_eval"
            /\ UNCHANGED << stop_in_eval, stop_seen >>
    /\ UNCHANGED << callVars, raised, sweep_log, phase_evaluated,
                    cfg, stop_requested, heap, best_score, initial_score,
                    score_history, iteration, hcVars, phase, param_names,
                    param_values, comb, coarse_best_score, total_iterations,
                    result, evaluated_best >>

\* the candidate's evaluation returns: phase-local best and budget check
GSEvaluated ==
    /\ pc = "gs_eval"
    /\ LET score == evaluate(test_params)
       IN  /\ heap' = EvaluateHeap(heap, test_params)
           /\ evaluated_best' = Max(evaluated_best, score)
           /\ IF Improves(score, best_score)
              THEN /\ best_score' = score
                   /\ best_params' = copy_params(test_params)
                   /\ ident' = [ident EXCEPT
                                  !.best = CopyIdentity(ident.test,
                                      {ident.current, ident.test,
                                       ident.coarse})]
              ELSE UNCHANGED << best_score, best_params, ident >>
    /\ phase_evaluated' = Append(phase_evaluated, test_params)
    /\ iteration' = iteration + 1
    /\ IF iteration' >= cfg.max_iterations
       THEN /\ pc' = "gs_phase_end"
            /\ UNCHANGED comb
       ELSE /\ pc' = "gs_loop"
            /\ comb' = comb + 1
    /\ UNCHANGED << callVars, raised, sweep_log,
                    cfg, current_params, stop_requested, initial_score,
                    score_history, test_params, hcVars, phase, param_names,
                    param_values, coarse_best_params, coarse_best_score,
                    total_iterations, result, stop_in_eval, late_evals,
                    stop_seen >>

\* the coarse phase has returned: history, then return if stopped
GSCoarseEnd ==
    /\ pc = "gs_phase_end"
    /\ phase = "Coarse"
    /\ coarse_best_params' = best_params
    /\ ident' = [ident EXCEPT !.coarse = ident.best]
    /\ coarse_best_score' = best_score
    /\ total_iterations' = total_iterations + iteration
    /\ score_history' = Append(score_history, best_score)
    /\ IF stop_requested
       THEN /\ result' = OptimizationResult(best_params, best_score,
                            initial_score, total_iterations', score_history')
            /\ stop_seen' = TRUE
            /\ pc' = "done"
            /\ UNCHANGED phase
       ELSE /\ phase' = "Fine"
            /\ pc' = "gs_setup"
            /\ UNCHANGED << result, stop_seen >>
    /\ UNCHANGED << callVars, raised, sweep_log, phase_evaluated,
                    baseVars, best_params, best_score, initial_score,
                    iteration, test_params, hcVars, param_names,
                    param_values, comb, evaluated_best, stop_in_eval, late_evals >>

\* the fine phase has returned: its best is the result
GSFineEnd ==
    /\ pc = "gs_phase_end"
    /\ phase = "Fine"
    /\ total_iterations' = total_iterations + iteration
    /\ score_history' = Append(score_history, best_score)
    /\ result' = OptimizationResult(best_params, best_score, initial_score,
                                    total_iterations', score_history')
    /\ pc' = "done"
    /\ UNCHANGED << callVars, raised, sweep_log, ident, phase_evaluated,
                    baseVars, best_params, best_score, initial_score,
                    iteration, test_params, hcVars, phase, param_names,
                    param_values, comb, coarse_best_params,
                    coarse_best_score, evaluated_best, stop_in_eval, late_evals,
                    stop_seen >>

\* ------------------------------------------------------ score function
\* Metric values, weights and penalty factors are thousandths; improvements
\* are thousandths of a percent.
WeightOf(name, w) == [metric |-> name, weight |-> w]

\* the default weight table, in the order of the dict
DEFAULT_WEIGHTS ==
    << WeightOf("snr", 2000), WeightOf("snr_rms", 1000),
       WeightOf("noise_std", 500), WeightOf("noise_std_mad", 1000),
       WeightOf("noise_std_laplacian", 1500), WeightOf("linewise_h", 1000),
       WeightOf("linewise_v", 1000), WeightOf("line_correlation", 500),
       WeightOf("abnormal_lines_count", 1000), WeightOf("edge_noise", 1000),
       WeightOf("edge_sharpness", 5000), WeightOf("gradient_variance", 500),
       WeightOf("edge_coherence", 1000),
       WeightOf("total_spectral_energy", 300),
       WeightOf("psd_peaks_count", 300) >>

HIGHER_IS_BETTER ==
    {"snr", "snr_rms", "line_correlation", "edge_sharpness", "edge_coherence"}

CRITICAL_METRICS == {"edge_sharpness", "noise_std_mad", "abnormal_lines_count"}

negative_penalty_factor == 5000
critical_penalty_factor == 20000
negative_count_penalty == 50000

\* 1e-10: every nonzero value of the model is at least one thousandth
Epsilon == 1

\* float division of integers of the model: the quotient toward zero
Quot(a, b) == IF a >= 0 THEN a \div b ELSE -((-a) \div b)

\* the float product of two numbers of the model, toward zero, computed
\* without leaving the 32-bit integers
Times(a, b) ==
    LET m == (Abs(a) \div 1000) * Abs(b) + ((Abs(a) % 1000) * Abs(b)) \div 1000
    IN  IF (a >= 0) = (b >= 0) THEN m ELSE -m

\* the ScoreFunction object after construction and loading of the settings
ScoreFunction(weights, general, critical, per_count) ==
    [weights |-> weights, negative_penalty_factor |-> general,
     critical_penalty_factor |-> critical,
     negative_count_penalty |-> per_count]

\* a plausible slip: only the missing keys are skipped
SkipsAbsentOnly(original_metrics, processed_metrics, metric_name) ==
    \/ metric_name \notin DOMAIN original_metrics
    \/ metric_name \notin DOMAIN processed_metrics

\* the two "continue" conditions of the loop over the weights
Skips(original_metrics, processed_metrics, metric_name) ==
    \/ metric_name \notin DOMAIN original_metrics
    \/ metric_name \notin DOMAIN processed_metrics
    \/ Abs(original_metrics[metric_name]) < Epsilon

\* a plausible slip: the direction of the metric is ignored
ImprovementUndirected(metric_name, orig_val, proc_val) ==
    Quot((proc_val - orig_val) * 100000, Abs(orig_val))

\* the percent improvement of one metric
Improvement(metric_name, orig_val, proc_val) ==
    IF metric_name \in HIGHER_IS_BETTER
    THEN Quot((proc_val - orig_val) * 100000, Abs(orig_val))
    ELSE Quot((orig_val - proc_val) * 100000, Abs(orig_val))

\* a plausible slip: an unchanged metric counts as regressed
NotImproved(improvement) == improvement <= 0

\* "if improvement < 0"
IsRegression(improvement) == improvement < 0

PenaltyFactor(sf, metric_name) ==
    IF metric_name \in CRITICAL_METRICS THEN sf.critical_penalty_factor
    ELSE sf.negative_penalty_factor

\* the loop of quick_score from the i-th weight on; failed is the
\* ZeroDivisionError of a division by a zero baseline
RECURSIVE QuickLoop(_, _, _, _, _)
QuickLoop(sf, original_metrics, processed_metrics, i, acc) ==
    IF i > Len(sf.weights) \/ acc.failed THEN acc
    ELSE LET metric_name == sf.weights[i].metric
             weight == sf.weights[i].weight
         IN  IF Skips(original_metrics, processed_metrics, metric_name)
             THEN QuickLoop(sf, original_metrics, processed_metrics, i + 1,
                            acc)
             ELSE IF original_metrics[metric_name] = 0
             THEN [acc EXCEPT !.failed = TRUE]
             ELSE LET improvement ==
                          Improvement(metric_name,
                                      original_metrics[metric_name],
                                      processed_metrics[metric_name])
                      score == Times(weight, improvement)
                      penalized ==
                          -Times(Abs(score), PenaltyFactor(sf, metric_name))
                  IN  QuickLoop(sf, original_metrics, processed_metrics,
                          i + 1,
                          IF IsRegression(improvement)
                          THEN [acc EXCEPT
                                  !.negative_count = @ + 1,
                                  !.total_score = @ + penalized]
                          ELSE [acc EXCEPT !.total_score = @ + score])

\* a plausible slip: the count penalty is subtracted once, not per metric
quick_score_flat(sf, original_metrics, processed_metrics) ==
    LET r == QuickLoop(sf, original_metrics, processed_metrics, 1,
                 [total_score |-> 0, negative_count |-> 0, failed |-> FALSE])
    IN  [failed |-> r.failed,
         value |-> IF r.negative_count > 0
                   THEN r.total_score - sf.negative_count_penalty
                   ELSE r.total_score]

\* ScoreFunction.quick_score
quick_score(sf, original_metrics, processed_metrics) ==
    LET r == QuickLoop(sf, original_metrics, processed_metrics, 1,
                 [total_score |-> 0, negative_count |-> 0, failed |-> FALSE])
    IN  [failed |-> r.failed,
         value |-> IF r.negative_count > 0
                   THEN r.total_score
                        - r.negative_count * sf.negative_count_penalty
                   ELSE r.total_score]

\* d[k] = v on a dict
Put(d, k, v) == [n \in DOMAIN d \cup {k} |-> IF n = k THEN v ELSE d[n]]

\* the loop of calculate_score from the i-th weight on
RECURSIVE CalculateLoop(_, _, _, _, _)
CalculateLoop(sf, original_metrics, processed_metrics, i, acc) ==
    IF i > Len(sf.weights) \/ acc.failed THEN acc
    ELSE LET metric_name == sf.weights[i].metric
             weight == sf.weights[i].weight
         IN  IF Skips(original_metrics, processed_metrics, metric_name)
             THEN CalculateLoop(sf, original_metrics, processed_metrics,
                                i + 1, acc)
             ELSE IF original_metrics[metric_name] = 0
             THEN [acc EXCEPT !.failed = TRUE]
             ELSE LET improvement ==
                          Improvement(metric_name,
                                      original_metrics[metric_name],
                                      processed_metrics[metric_name])
                      score == Times(weight, improvement)
                      penalty_amount ==
                          Times(Abs(score), PenaltyFactor(sf, metric_name))
                      with_improvement ==
                          [acc EXCEPT !.improvements =
                                         Put(@, metric_name, improvement)]
                  IN  CalculateLoop(sf, original_metrics, processed_metrics,
                          i + 1,
                          IF IsRegression(improvement)
                          THEN [with_improvement EXCEPT
                                  !.negative_count = @ + 1,
                                  !.penalty = @ + penalty_amount,
                                  !.metric_scores =
                                      Put(@, metric_name, -penalty_amount),
                                  !.total_score = @ - penalty_amount]
                          ELSE [with_improvement EXCEPT
                                  !.metric_scores = Put(@, metric_name, score),
                                  !.total_score = @ + score])

\* the ScoreResult before the loop
EmptyScoreResult ==
    [total_score |-> 0, metric_scores |-> << >>, improvements |-> << >>,
     penalty |-> 0, negative_count |-> 0, failed |-> FALSE]

\* a plausible slip: the count penalty is reported but not subtracted
calculate_score_unsubtracted(sf, original_metrics, processed_metrics) ==
    LET r == CalculateLoop(sf, original_metrics, processed_metrics, 1,
                           EmptyScoreResult)
        count_penalty == r.negative_count * sf.negative_count_penalty
    IN  IF r.negative_count > 0
        THEN [r EXCEPT !.penalty = @ + count_penalty]
        ELSE r

\* ScoreFunction.calculate_score
calculate_score(sf, original_metrics, processed_metrics) ==
    LET r == CalculateLoop(sf, original_metrics, processed_metrics, 1,
                           EmptyScoreResult)
        count_penalty == r.negative_count * sf.negative_count_penalty
    IN  IF r.negative_count > 0
        THEN [r EXCEPT !.penalty = @ + count_penalty,
                       !.total_score = @ - count_penalty]
        ELSE r

\* ------------------------------------------------------- direct calls
\* the metrics the snapshots of the calls may report
SnapshotMetrics == {"snr", "noise_std", "edge_sharpness"}

\* a baseline is zero or 10; a processed value is zero, the baseline, or
\* Change units below or above it
OriginalValues == {0, 10000}
ProcessedValues == {0, 10000 - Change * 1000, 10000, 10000 + Change * 1000}

Snapshots(values) ==
    UNION { [S -> values] : S \in SUBSET SnapshotMetrics }

WeightTables ==
    { DEFAULT_WEIGHTS,
      << WeightOf("snr", 2000) >>,
      << WeightOf("edge_sharpness", 5000) >>,
      << WeightOf("noise_std", 500) >>,
      << WeightOf("snr", 1000), WeightOf("noise_std", 0),
         WeightOf("edge_sharpness", 1000) >>,
      << >> }

\* the default penalties, and the smallest ones the settings dialog offers
ScoreFunctions ==
    { ScoreFunction(w, negative_penalty_factor, critical_penalty_factor,
                    negative_count_penalty) : w \in WeightTables }
    \cup { ScoreFunction(w, 1000, 1000, 0) : w \in WeightTables }

CallOf(fn, sf, o, p, registry, f, n, v) ==
    [fn |-> fn, sf |-> sf, original_metrics |-> o, processed_metrics |-> p,
     param_bounds |-> registry, filter_name |-> f, param_name |-> n,
     value |-> v]

ScoreCalls ==
    { CallOf("score", sf, o, p, << >>, "", "", 0) :
        sf \in ScoreFunctions, o \in Snapshots(OriginalValues),
        p \in Snapshots(ProcessedValues) }

\* the values a parameter is clipped from: from Overshoot quarters of the
\* range below its minimum to as many above its maximum
ClipValues(r) ==
    { r.lo + ((r.hi - r.lo) * k) \div 4 : k \in (-Overshoot)..(4 + Overshoot) }
    \cup { r.lo - 1, r.lo + 1, r.hi - 1, r.hi + 1 }

ClipPairs ==
    { << "Linewise", "window_size" >>, << "Linewise", "strength" >>,
      << "NLM", "h" >>, << "F", "strength" >>, << "Wiener", "noise" >>,
      << "Linewise", "radius" >> }

ClipCalls ==
    { CallOf("clip", << >>, << >>, << >>, reg, fp[1], fp[2], v) :
        reg \in {PARAM_BOUNDS, UnitBounds}, fp \in ClipPairs,
        v \in UNION { ClipValues(get_param_range(reg2, fp2[1], fp2[2])) :
                        reg2 \in {PARAM_BOUNDS, UnitBounds},
                        fp2 \in ClipPairs } }

\* ScoreFunction.quick_score is called on the two snapshots
QuickScore ==
    /\ call.fn = "score"
    /\ call_pc = "called"
    /\ quick' = quick_score(call.sf, call.original_metrics,
                            call.processed_metrics)
    /\ call_pc' = "quick"
    /\ UNCHANGED << baseVars, pc, runVars, hcVars, gsVars, result, obsVars,
                    ident, phase_evaluated, raised, sweep_log, call, detailed,
                    clip_result >>

\* ScoreFunction.calculate_score is called on the same two snapshots
CalculateScore ==
    /\ call.fn = "score"
    /\ call_pc = "quick"
    /\ detailed' = calculate_score(call.sf, call.original_metrics,
                                   call.processed_metrics)
    /\ call_pc' = "scored"
    /\ UNCHANGED << baseVars, pc, runVars, hcVars, gsVars, result, obsVars,
                    ident, phase_evaluated, raised, sweep_log, call, quick,
                    clip_result >>

\* OptimizerBase._clip_param is called
ClipParam ==
    /\ call.fn = "clip"
    /\ call_pc = "called"
    /\ clip_result' = clip_param(call.param_bounds, call.filter_name,
                                 call.param_name, call.value)
    /\ call_pc' = "clipped"
    /\ UNCHANGED << baseVars, pc, runVars, hcVars, gsVars, result, obsVars,
                    ident, phase_evaluated, raised, sweep_log, call, quick, detailed >>

\* ------------------------------------------- errors of the collaborators
\* a plausible slip: an error in a candidate's evaluation is swallowed and
\* the search is ended with what it has
UnwindCaught(position) ==
    IF position = "hc_eval" THEN "hc_return"
    ELSE IF position = "gs_eval" THEN "gs_phase_end"
    ELSE "raised"

\* where the call goes when a collaborator raises at the given position:
\* optimize, _grid_search_phase and _evaluate have no handler, the error
\* leaves optimize
Unwind(position) == "raised"

\* analyze_func(image) raises in the analysis of the original image
BaselineRaises ==
    /\ pc = "entered"
    /\ stop_requested' = FALSE
    /\ raised' = TRUE
    /\ pc' = Unwind(pc)
    /\ UNCHANGED << cfg, current_params, heap, runVars, hcVars, gsVars,
                    result, obsVars, ident, phase_evaluated, sweep_log,
                    callVars >>

\* apply_filter_func or analyze_func raises inside _evaluate
EvaluateRaises ==
    /\ pc \in {"hc_initial", "hc_eval", "gs_initial", "gs_eval"}
    /\ raised' = TRUE
    /\ pc' = Unwind(pc)
    /\ UNCHANGED << baseVars, runVars, hcVars, gsVars, result, obsVars,
                    ident, phase_evaluated, sweep_log, callVars >>

\* ------------------------------------------------------ the specification
Next ==
    \/ Stop
    \/ Invoke
    \/ HCOptimize
    \/ HCInitialEvaluate
    \/ HCWhile
    \/ HCParam
    \/ HCDirection
    \/ HCEvaluated
    \/ HCSweepEnd
    \/ HCReturn
    \/ GSOptimize
    \/ GSInitialEvaluate
    \/ GSPhaseSetup
    \/ GSLoop
    \/ GSEvaluated
    \/ GSCoarseEnd
    \/ GSFineEnd
    \/ BaselineRaises
    \/ EvaluateRaises

Spec == Init /\ [][Next]_vars

\* the direct calls: one call of the score function, in both modes, or of
\* _clip_param, on an optimizer that is not running
CallInit ==
    /\ cfg = CHOOSE c \in Configs : c.kind = "hill"
    /\ OptimizerConstructed
    /\ call \in ScoreCalls \cup ClipCalls
    /\ call_pc = "called"
    /\ quick = [failed |-> FALSE, value |-> 0]
    /\ detailed = << >>
    /\ clip_result = 0

CallNext ==
    \/ QuickScore
    \/ CalculateScore
    \/ ClipParam

CallSpec == CallInit /\ [][CallNext]_vars

\* ------------------------------------------------------------- properties
NonDecreasing(h) == \A i \in 1..(Len(h) - 1) : h[i] <= h[i + 1]

\* C1: in a hill-climbing run the score history starts with the initial
\* score, gets one entry per sweep, each entry is the running best score at
\* the end of its sweep, and no entry is lower than the entry before it.
HCScoreHistoryNonDecreasing ==
    (cfg.kind = "hill" /\ pc \notin {"idle", "entered", "hc_initial", "raised"}) =>
        /\ score_history[1] = initial_score
        /\ Len(score_history) = iteration + 1
        /\ NonDecreasing(score_history)
        /\ score_history[Len(score_history)] <= best_score
        /\ pc \in {"hc_while", "hc_return", "done"} =>
              score_history[Len(score_history)] = best_score
        /\ pc = "done" => result.score_history = score_history

\* a finished hill-climbing run of several sweeps whose best score rose
HCHistoryRose ==
    /\ cfg.kind = "hill"
    /\ pc = "done"
    /\ Len(result.score_history) >= 4
    /\ result.score_history[1] < result.score_history[2]
    /\ result.score_history[2] < result.score_history[Len(result.score_history)]

\* C2: in a grid-search run the score history is non-decreasing: the entry
\* of the coarse phase is not lower than the initial score and the entry of
\* the fine phase is not lower than the entry of the coarse phase.
GSScoreHistoryNonDecreasing ==
    (cfg.kind = "grid" /\ pc \notin {"idle", "entered", "gs_initial", "raised"}) =>
        NonDecreasing(score_history)

\* C3: a run that ended because the stop flag was seen returns a best score
\* that no candidate evaluated in the run exceeds.
StoppedRunReturnsBest ==
    (pc = "done" /\ stop_seen) => result.best_score >= evaluated_best

\* C4: once stop() has been called during a run, no evaluation of a new
\* candidate is started: after a stop() that arrives while an evaluation is
\* running, that evaluation is the last one of the run.
NoEvaluationStartsAfterStop == late_evals = 0

IsOddWhole(v) == v % 1000 = 0 /\ (v \div 1000) % 2 = 1

\* every odd-constrained value of an assignment is odd, or is the value the
\* caller supplied
OddOrCallers(params) ==
    \A f \in DOMAIN params : \A p \in DOMAIN params[f] \cap HCOddParams :
        \/ IsOddWhole(params[f][p])
        \/ (f \in DOMAIN current_params /\ p \in DOMAIN current_params[f]
            /\ params[f][p] = current_params[f][p])

\* C5: the value either optimizer writes into a candidate for window_size,
\* templateWindowSize or searchWindowSize is odd; an evaluated candidate and
\* the returned assignment hold, for these parameters, only odd values or
\* the caller's own untouched starting value.
OddParamsStayOdd ==
    /\ pc = "hc_eval" =>
          LET f == pipeline_filters[fi]
              p == bounds[f][pi].name
          IN  p \in HCOddParams => IsOddWhole(test_params[f][p])
    /\ pc = "gs_eval" =>
          \A j \in 1..Len(param_names) :
              param_names[j][2] \in HCOddParams =>
                  IsOddWhole(test_params[param_names[j][1]][param_names[j][2]])
    /\ pc \in {"hc_eval", "gs_eval"} => OddOrCallers(test_params)
    /\ pc = "done" => OddOrCallers(result.best_params)

\* hill climbing evaluates a candidate whose clipped and rounded value was
\* even
EvenRoundedCandidate ==
    /\ pc = "hc_eval"
    /\ bounds[pipeline_filters[fi]][pi].name \in HCOddParams
    /\ \E d \in {1, -1} :
          LET f == pipeline_filters[fi]
              p == bounds[f][pi].name
              clipped == clip_param(bounds, f, p, current_val + d * step)
          IN  /\ PyRound(clipped) % 2 = 0
              /\ test_params[f][p] = (PyRound(clipped) + 1) * 1000

InRange(f, p, v) ==
    LET r == get_param_range(bounds, f, p) IN r.lo <= v /\ v <= r.hi

\* C6: every value an optimizer writes into a candidate lies within
\* [min, max] of its bounds entry and is whole when the parameter is
\* integer-constrained.
CandidateValuesWithinBounds ==
    /\ pc = "hc_eval" =>
          LET f == pipeline_filters[fi]
              p == bounds[f][pi].name
          IN  /\ InRange(f, p, test_params[f][p])
              /\ p \in HCIntegerParams => test_params[f][p] % 1000 = 0
    /\ pc = "gs_eval" =>
          \A j \in 1..Len(param_names) :
              LET f == param_names[j][1]
                  p == param_names[j][2]
              IN  /\ InRange(f, p, test_params[f][p])
                  /\ p \in GSIntegerParams => test_params[f][p] % 1000 = 0

\* C7: a grid-search run performs at most max_iterations candidate
\* evaluations over its two phases together.
GSTotalEvaluationsWithinBudget ==
    (cfg.kind = "grid" /\ pc = "done") =>
        result.iterations <= cfg.max_iterations

\* C8: the returned result has improved exactly when its best score is
\* strictly greater than the score of the initial evaluation.
ImprovedIffBetter ==
    pc = "done" =>
        /\ result.initial_score = evaluate(current_params)
        /\ result.improved = (result.best_score > result.initial_score)

\* a run returns a best score equal to the initial score
ReturnedEqualToInitial ==
    /\ pc = "done"
    /\ result.best_score = result.initial_score
    /\ ~result.improved

\* the scenario of C9: one filter, strength in [0, 1] with step 0.1, a score
\* with its single peak at 0.7, a start at 0.2, the default budget
ConvergenceScenario ==
    /\ cfg.kind = "hill"
    /\ bounds = UnitBounds
    /\ cfg.scenario.current_params.F.strength = 200
    /\ cfg.shape.kind = "peak"
    /\ cfg.shape.tenths = 7
    /\ cfg.max_iterations = hc_max_iterations

\* C9: in the scenario, if no stop is requested, the best strength is within
\* one step of 0.7 from the first sweep without improvement on, and the run
\* ends by the no-improvement streak with that value.
ConvergesWithinOneStep ==
    (ConvergenceScenario /\ ~stop_requested) =>
        /\ (no_improvement_count >= 1
            /\ pc \notin {"idle", "entered", "hc_initial", "raised"}) =>
              Abs(best_params.F.strength - 700) <= 100
        /\ pc = "done" =>
              /\ Abs(result.best_params.F.strength - 700) <= 100
              /\ no_improvement_count = max_no_improvement
              /\ result.iterations < cfg.max_iterations

\* the scenario's run has ended, unstopped, after climbing from 0.2
ConvergedRun ==
    /\ ConvergenceScenario
    /\ ~stop_requested
    /\ pc = "done"
    /\ result.improved
    /\ result.iterations >= max_no_improvement

\* C10: the caller's image keeps its contents and is never the object handed
\* to apply_filter_func.
CallerImageUntouched ==
    /\ heap.caller = "orig"
    /\ "caller" \notin heap.passed

\* a filter that overwrites its argument has run on the work copy
InPlaceFilterRan ==
    /\ cfg.in_place
    /\ heap.work = "filtered"
    /\ "work" \in heap.passed
    /\ pc \in {"hc_dir", "gs_loop"}

\* C11: no step modifies the caller's assignment, and neither the building
\* of a candidate nor the rejection of an evaluated candidate changes the
\* current best assignment.
ParamsNeverModifiedInPlace ==
    [][ /\ current_params' = current_params
        /\ current_params = cfg.scenario.current_params
        /\ pc \in {"hc_dir", "gs_loop"} => best_params' = best_params
        /\ (pc \in {"hc_eval", "gs_eval"} /\ pc' # "raised"
            /\ ~(evaluate(test_params) > best_score)) =>
               best_params' = best_params ]_vars

\* a run has returned after evaluating candidates and rejecting them all
AllCandidatesRejected ==
    /\ pc = "done"
    /\ evaluated_best > NegInf
    /\ ~result.improved
    /\ late_evals = 0
    /\ result.best_params = cfg.scenario.current_params
    /\ current_params = cfg.scenario.current_params

\* the call of the score function has returned from quick_score
QuickReturned == call.fn = "score" /\ call_pc \in {"quick", "scored"}

\* the percent change of a metric in its good direction
GoodChangePercent(m) ==
    LET o == call.original_metrics[m]
        p == call.processed_metrics[m]
    IN  Quot((IF m \in HIGHER_IS_BETTER THEN p - o ELSE o - p) * 100000,
             Abs(o))

\* the weighted metric is in both snapshots with a baseline that is not zero
Scored(m) ==
    /\ m \in DOMAIN call.original_metrics
    /\ m \in DOMAIN call.processed_metrics
    /\ call.original_metrics[m] # 0

\* C12: with a single weighted metric whose baseline is not negligible,
\* quick_score is weight x improvement when the improvement is not negative,
\* and otherwise -|weight x improvement| x factor - count penalty, the
\* factor being the critical one for a critical metric; with the default
\* penalties 5, 20 and 50, weight snr = 2 and original snr = 10, processed
\* 12 gives 40 and processed 8 gives -250.
SingleMetricQuickScore ==
    (QuickReturned /\ Len(call.sf.weights) = 1
        /\ Scored(call.sf.weights[1].metric)) =>
        LET sf == call.sf
            m == sf.weights[1].metric
            weighted == Times(sf.weights[1].weight, GoodChangePercent(m))
            factor == IF m \in CRITICAL_METRICS
                      THEN sf.critical_penalty_factor
                      ELSE sf.negative_penalty_factor
            defaults == /\ sf.negative_penalty_factor = 5000
                        /\ sf.critical_penalty_factor = 20000
                        /\ sf.negative_count_penalty = 50000
            example == /\ defaults
                       /\ sf.weights = << WeightOf("snr", 2000) >>
                       /\ call.original_metrics.snr = 10000
        IN  /\ ~quick.failed
            /\ GoodChangePercent(m) >= 0 => quick.value = weighted
            /\ GoodChangePercent(m) < 0 =>
                  quick.value = -Times(Abs(weighted), factor)
                                - sf.negative_count_penalty
            /\ (example /\ call.processed_metrics.snr = 12000) =>
                  quick.value = 40000
            /\ (example /\ call.processed_metrics.snr = 8000) =>
                  quick.value = -250000
            /\ (defaults /\ m = "edge_sharpness" /\ sf.weights[1].weight = 5000
                /\ call.processed_metrics[m] = 8000) =>
                  quick.value = -2050000

\* quick_score has scored the regression of the example: snr from 10 to 8
SnrRegressionScored ==
    /\ QuickReturned
    /\ call.sf = ScoreFunction(<< WeightOf("snr", 2000) >>, 5000, 20000, 50000)
    /\ "snr" \in DOMAIN call.original_metrics
    /\ "snr" \in DOMAIN call.processed_metrics
    /\ call.original_metrics.snr = 10000
    /\ call.processed_metrics.snr = 8000
    /\ quick.value = -250000

\* C13: quick_score of two identical snapshots is 0, whatever the snapshot
\* and the weight table; the detailed mode then reports no improvement, no
\* regressed metric and no penalty.
IdenticalSnapshotsScoreZero ==
    (QuickReturned /\ call.processed_metrics = call.original_metrics) =>
        /\ quick = [failed |-> FALSE, value |-> 0]
        /\ call_pc = "scored" =>
              /\ detailed.negative_count = 0
              /\ detailed.penalty = 0
              /\ \A m \in DOMAIN detailed.improvements :
                    detailed.improvements[m] = 0

\* both modes have scored a snapshot against itself, three weighted metrics
\* of it having a baseline that is not zero
IdenticalSnapshotsScored ==
    /\ call.fn = "score"
    /\ call_pc = "scored"
    /\ call.processed_metrics = call.original_metrics
    /\ call.sf.weights = DEFAULT_WEIGHTS
    /\ DOMAIN detailed.improvements = SnapshotMetrics

\* the sum of the per-metric scores of a breakdown, from the i-th weight on
RECURSIVE SumOf(_, _, _)
SumOf(metric_scores, weights, i) ==
    IF i > Len(weights) THEN 0
    ELSE (IF weights[i].metric \in DOMAIN metric_scores
          THEN metric_scores[weights[i].metric] ELSE 0)
         + SumOf(metric_scores, weights, i + 1)

\* scoring the processed snapshot p against the call's original snapshot:
\* the summed per-metric contributions, the number of metrics counted as
\* regressed, and the total of quick_score
Evaluation(p) ==
    LET d == calculate_score(call.sf, call.original_metrics, p)
    IN  [contributions |-> SumOf(d.metric_scores, call.sf.weights, 1),
         regressed |-> d.negative_count,
         total |-> quick_score(call.sf, call.original_metrics, p).value]

\* the evaluations of the other processed snapshots of the same metrics
\* that have the summed contributions of the evaluation a and more regressed
\* metrics
MoreRegressedThan(a) ==
    { b \in { Evaluation(p) :
                p \in [DOMAIN call.processed_metrics -> ProcessedValues] } :
        b.contributions = a.contributions /\ b.regressed > a.regressed }

MoreRegressedEvaluations ==
    MoreRegressedThan(Evaluation(call.processed_metrics))

\* C14 as stated: of two evaluations with equal summed contributions, the
\* one with more regressed metrics has the strictly lower total, lower by
\* the per-regressed-metric penalty times the difference of the counts.
PenaltyStrictlyMonotone ==
    (call.fn = "score" /\ call_pc = "quick") =>
        \A b \in MoreRegressedEvaluations :
            /\ b.total < quick.value
            /\ quick.value - b.total =
                  call.sf.negative_count_penalty
                  * (b.regressed - Evaluation(call.processed_metrics).regressed)

\* C14, amended: the total is lower by the per-regressed-metric penalty
\* times the difference of the counts, hence strictly lower exactly when
\* that penalty is positive; it is equal when the penalty is set to 0.
PenaltyMonotone ==
    (call.fn = "score" /\ call_pc = "quick") =>
        \A b \in MoreRegressedEvaluations :
            /\ quick.value - b.total =
                  call.sf.negative_count_penalty
                  * (b.regressed - Evaluation(call.processed_metrics).regressed)
            /\ call.sf.negative_count_penalty > 0 => b.total < quick.value
            /\ call.sf.negative_count_penalty = 0 => b.total = quick.value

\* an evaluation with one regressed metric has the summed contributions of
\* another evaluation with two more regressed metrics, the penalty being
\* positive
TwoMoreRegressed ==
    /\ call.fn = "score"
    /\ call_pc = "quick"
    /\ call.sf.negative_count_penalty > 0
    /\ Evaluation(call.processed_metrics).regressed = 1
    /\ \E b \in MoreRegressedEvaluations :
          b.regressed = 3 /\ b.total = quick.value - 100000

\* C15: the total score of calculate_score equals the value of quick_score
\* on the same snapshots and configuration, and its negative_count is the
\* number of weighted metrics whose improvement is negative.
DetailedAgreesWithQuick ==
    (call.fn = "score" /\ call_pc = "scored") =>
        /\ detailed.failed = quick.failed
        /\ detailed.total_score = quick.value
        /\ detailed.negative_count =
              Cardinality({ i \in 1..Len(call.sf.weights) :
                              /\ Scored(call.sf.weights[i].metric)
                              /\ GoodChangePercent(call.sf.weights[i].metric)
                                    < 0 })

\* both modes have scored snapshots of which two metrics regressed and one
\* improved
MixedSnapshotsScored ==
    /\ call.fn = "score"
    /\ call_pc = "scored"
    /\ detailed.negative_count = 2
    /\ \E m \in DOMAIN detailed.improvements : detailed.improvements[m] > 0
    /\ detailed.total_score = quick.value
    /\ call.sf.negative_count_penalty > 0

\* the weighted metric is skipped: not in both snapshots, or a zero baseline
Negligible(m) ==
    \/ m \notin DOMAIN call.original_metrics
    \/ m \notin DOMAIN call.processed_metrics
    \/ call.original_metrics[m] = 0

\* the score function without its i-th weight
WithoutWeight(sf, i) ==
    [sf EXCEPT !.weights =
        [j \in 1..(Len(sf.weights) - 1) |->
            IF j < i THEN sf.weights[j] ELSE sf.weights[j + 1]]]

\* C16: a weighted metric that is absent from a snapshot or has a zero
\* baseline contributes nothing: scoring does not fail, the metric is in
\* neither breakdown, and both modes return what they return without its
\* weight (total, penalty and regressed count included).
NegligibleMetricsContributeNothing ==
    (call.fn = "score" /\ call_pc = "scored") =>
        /\ ~quick.failed
        /\ ~detailed.failed
        /\ \A i \in 1..Len(call.sf.weights) :
              Negligible(call.sf.weights[i].metric) =>
                /\ call.sf.weights[i].metric \notin DOMAIN detailed.improvements
                /\ call.sf.weights[i].metric \notin DOMAIN detailed.metric_scores
                /\ quick = quick_score(WithoutWeight(call.sf, i),
                                       call.original_metrics,
                                       call.processed_metrics)
                /\ detailed = calculate_score(WithoutWeight(call.sf, i),
                                              call.original_metrics,
                                              call.processed_metrics)

\* both modes have scored snapshots with a zero baseline for one weighted
\* metric, no processed value for another, and a regression of the third
ZeroBaselineSkipped ==
    /\ call.fn = "score"
    /\ call_pc = "scored"
    /\ call.sf.weights = DEFAULT_WEIGHTS
    /\ DOMAIN call.original_metrics = SnapshotMetrics
    /\ call.original_metrics.snr = 0
    /\ "noise_std" \notin DOMAIN call.processed_metrics
    /\ DOMAIN detailed.improvements = {"edge_sharpness"}
    /\ detailed.negative_count = 1

\* the bounds entry of the call's (filter, parameter) pair, or the default
\* range for a pair the registry does not have
EntryOfCall ==
    LET reg == call.param_bounds
        f == call.filter_name
    IN  IF f \in DOMAIN reg
           /\ \E i \in 1..Len(reg[f]) : reg[f][i].name = call.param_name
        THEN LET i == CHOOSE i \in 1..Len(reg[f]) :
                          reg[f][i].name = call.param_name
             IN  [lo |-> reg[f][i].lo, hi |-> reg[f][i].hi]
        ELSE [lo |-> 0, hi |-> 1000]

\* C17: _clip_param returns a value within [min, max] of the pair's bounds
\* entry, or of the default range (0.0, 1.0) for an unknown pair, whatever
\* the value; a value inside the range is returned unchanged.
ClipParamWithinRange ==
    (call.fn = "clip" /\ call_pc = "clipped") =>
        /\ EntryOfCall.lo <= clip_result
        /\ clip_result <= EntryOfCall.hi
        /\ (EntryOfCall.lo <= call.value /\ call.value <= EntryOfCall.hi) =>
              clip_result = call.value

\* a value below the minimum of a registered pair has been clipped
ClippedFromBelow ==
    /\ call.fn = "clip"
    /\ call_pc = "clipped"
    /\ call.param_bounds = PARAM_BOUNDS
    /\ call.filter_name = "Linewise"
    /\ call.param_name = "window_size"
    /\ call.value < 3000
    /\ clip_result = 3000

\* the Cartesian product of the grids of the current phase
GridProduct ==
    { c \in [1..Len(param_values) ->
                UNION { RangeOf(param_values[j]) : j \in 1..Len(param_values) }] :
        \A j \in 1..Len(param_values) : c[j] \in RangeOf(param_values[j]) }

\* the evaluations of the current phase whose candidate sets the searched
\* pairs as the combination c says
EvaluationsOf(c) ==
    { i \in 1..Len(phase_evaluated) :
        \A j \in 1..Len(param_names) :
            phase_evaluated[i][param_names[j][1]][param_names[j][2]] = c[j] }

\* the coarse phase has ended, no stop was requested, and its product fits
\* the budget
CoarseCompleted ==
    /\ cfg.kind = "grid"
    /\ phase = "Coarse"
    /\ pc = "gs_phase_end"
    /\ ~stop_requested
    /\ Len(param_values) > 0
    /\ TotalCombinations(param_values, 1) <= cfg.max_iterations

RaisedErrorEndsTheCall ==
    raised =>
        /\ pc = "raised"
        /\ DOMAIN result = {}
        /\ ~ENABLED Next

\* a collaborator has raised in the evaluation of a later candidate of a
\* grid phase
RaisedInLaterEvaluation ==
    /\ raised
    /\ cfg.kind = "grid"
    /\ Len(phase_evaluated) >= 2
    /\ DOMAIN result = {}

\* the best of the candidates the fine phase evaluated: the first of them
\* with the highest score; the caller's assignment with -inf if it
\* evaluated none, and with 0 if no parameter is searched
FinePhaseBest ==
    IF Len(param_names) = 0 THEN [params |-> current_params, score |-> 0]
    ELSE IF Len(phase_evaluated) = 0
    THEN [params |-> current_params, score |-> NegInf]
    ELSE LET top == CHOOSE i \in 1..Len(phase_evaluated) :
                      \A j \in 1..Len(phase_evaluated) :
                          /\ evaluate(phase_evaluated[j])
                                <= evaluate(phase_evaluated[i])
                          /\ j < i => evaluate(phase_evaluated[j])
                                        < evaluate(phase_evaluated[i])
         IN  [params |-> phase_evaluated[top],
              score |-> evaluate(phase_evaluated[top])]

\* C20: a grid-search run in which no stop was requested returns the best
\* score and assignment of its fine phase alone, whatever the coarse phase
\* found; the returned best score can be below the coarse-phase best.
FinePhaseAloneReturned ==
    (cfg.kind = "grid" /\ pc = "done" /\ ~stop_requested) =>
        /\ phase = "Fine"
        /\ result.best_score = FinePhaseBest.score
        /\ result.best_params = FinePhaseBest.params
        /\ result.score_history =
              << initial_score, coarse_best_score, FinePhaseBest.score >>

\* an unstopped grid-search run with the default budget has returned a best
\* score below the best score of its coarse phase, its fine phase having
\* evaluated candidates
ReturnedBelowCoarseBest ==
    /\ cfg.kind = "grid"
    /\ pc = "done"
    /\ ~stop_requested
    /\ cfg.max_iterations = gs_max_iterations
    /\ Len(phase_evaluated) > 0
    /\ result.best_score < coarse_best_score

\* ------------------------------------------------ termination and budget
\* the steps the thread that runs a hill-climbing optimize takes by itself
HCStep ==
    \/ HCOptimize
    \/ HCInitialEvaluate
    \/ HCWhile
    \/ HCParam
    \/ HCDirection
    \/ HCEvaluated
    \/ HCSweepEnd
    \/ HCReturn

\* a call of HillClimbingOptimizer.optimize
HCInit == Init /\ cfg.kind = "hill"

HCNext ==
    \/ Stop
    \/ Invoke
    \/ HCStep
    \/ BaselineRaises
    \/ EvaluateRaises

\* the thread that runs optimize keeps running and its collaborators return
FairSpec == HCInit /\ [][HCNext]_vars /\ WF_vars(HCStep)

\* the evaluations the sweep has started for one (filter, param) pair
PairEvaluations(f, p) ==
    Cardinality({ i \in 1..Len(sweep_log) :
                    sweep_log[i].filter = f /\ sweep_log[i].param = p })

HCSweepsBounded ==
    cfg.kind = "hill" =>
       /\ iteration \in 0..cfg.max_iterations
       /\ pc = "done" => result.iterations \in 0..cfg.max_iterations
       /\ \A i \in 1..Len(sweep_log) :
             PairEvaluations(sweep_log[i].filter, sweep_log[i].param) <= 2

RECURSIVE TrailingFlat(_)
TrailingFlat(h) ==
    IF Len(h) < 2 \/ h[Len(h)] # h[Len(h) - 1]
    THEN 0
    ELSE 1 + TrailingFlat(SubSeq(h, 1, Len(h) - 1))

\* C22: the no-improvement counter is the number of consecutive most recent
\* sweeps without an accepted candidate; the loop goes on while it is below
\* max_no_improvement and a run that ends with budget left and no stop seen
\* ends with the counter at max_no_improvement
StreakCountsRecentFlatSweeps ==
    (cfg.kind = "hill"
        /\ pc \notin {"idle", "entered", "hc_initial", "raised"}) =>
       /\ no_improvement_count = TrailingFlat(score_history)
       /\ no_improvement_count <= max_no_improvement
       /\ pc \in {"hc_while", "hc_param", "hc_dir", "hc_eval", "hc_sweep"}
             => no_improvement_count < max_no_improvement
       /\ (pc = "done" /\ ~stop_requested
              /\ result.iterations < cfg.max_iterations)
             => no_improvement_count = max_no_improvement

\* a run that improved, then ended on ten flat sweeps with budget left
EndedOnStreakAfterImprovement ==
    /\ cfg.kind = "hill"
    /\ pc = "done"
    /\ ~stop_requested
    /\ result.improved
    /\ result.iterations < cfg.max_iterations
    /\ result.iterations > max_no_improvement
    /\ no_improvement_count = max_no_improvement

\* ------------------------------------------------------ the step multipliers
\* every step multiplier of the run
Multipliers ==
    UNION { { step_multipliers[f][p] : p \in DOMAIN step_multipliers[f] } :
              f \in DOMAIN step_multipliers }

HCRunning ==
    cfg.kind = "hill" /\ pc \notin {"idle", "entered", "hc_initial", "raised"}

\* C23 as stated: every step multiplier is above min_step_factor and at most 1
MultipliersAboveFloor ==
    HCRunning => \A m \in Multipliers : min_step_factor < m /\ m <= 1000

\* C23, amended: every step multiplier lies in [min_step_factor, 1]: all start
\* at 1, growth is capped at 1 and the decay is floored at min_step_factor,
\* which a multiplier does reach
MultipliersWithinFloorAndOne ==
    HCRunning =>
       /\ \A m \in Multipliers : min_step_factor <= m /\ m <= 1000
       /\ (iteration = 0 /\ pc = "hc_while")
             => \A m \in Multipliers : m = 1000

\* a multiplier has decayed to the floor while another one is above it
MultiplierAtFloor ==
    /\ HCRunning
    /\ \E m \in Multipliers : m = min_step_factor
    /\ \E m \in Multipliers : m > min_step_factor

\* ------------------------------------------------- the order inside a sweep
\* the assignment the i-th evaluation of the sweep was made on
TriedAssignment(i) ==
    [sweep_log[i].from EXCEPT
        ![sweep_log[i].filter][sweep_log[i].param] = sweep_log[i].value]

\* the i-th evaluation of the sweep scored strictly above the best so far
TriedImproves(i) ==
    evaluate(TriedAssignment(i)) > evaluate(sweep_log[i].from)

\* the best assignment once the i-th evaluation of the sweep has returned
AfterTried(i) ==
    IF TriedImproves(i) THEN TriedAssignment(i) ELSE sweep_log[i].from

SamePair(i, j) ==
    /\ sweep_log[i].filter = sweep_log[j].filter
    /\ sweep_log[i].param = sweep_log[j].param

GridsGenerated(phase_name) ==
    /\ cfg.kind = "grid"
    /\ phase = phase_name
    /\ pc \in {"gs_loop", "gs_eval", "gs_phase_end", "done"}

\* the bounds entry of the j-th parameter of the phase
GridRange(j) == get_param_range(bounds, param_names[j][1], param_names[j][2])

\* the coarse-phase best value of the j-th parameter of the phase
GridCentre(j) == coarse_best_params[param_names[j][1]][param_names[j][2]]

\* v lies in [max(min, c - w/2), min(max, c + w/2)], w = 0.3 * (max - min);
\* both sides are doubled and scaled by 1000 to stay in the integers
InFineWindow(r, c, v) ==
    LET w == (r.hi - r.lo) * fine_range_factor
    IN  /\ 2000 * v >= Max(2000 * r.lo, 2000 * c - w)
        /\ 2000 * v <= Min(2000 * r.hi, 2000 * c + w)

\* C25: every value of a fine-phase grid lies inside the window centred on
\* the parameter's coarse-phase best value
FineValuesInsideWindow ==
    (GridsGenerated("Fine") /\ DOMAIN coarse_best_params # {}) =>
       \A j \in 1..Len(param_names) :
          \A k \in 1..Len(param_values[j]) :
             InFineWindow(GridRange(j), GridCentre(j), param_values[j][k])

\* C26: every grid value of an integer-constrained parameter, in both
\* phases, is a whole number of the form min + k * step and at most max
GridValuesStepAligned ==
    (GridsGenerated("Coarse") \/ GridsGenerated("Fine")) =>
       \A j \in 1..Len(param_names) :
          param_names[j][2] \in GSIntegerParams =>
             \A k \in 1..Len(param_values[j]) :
                LET v == param_values[j][k]
                    r == GridRange(j)
                IN  /\ v % 1000 = 0
                    /\ r.lo <= v /\ v <= r.hi
                    /\ (v - r.lo) % r.step = 0

\* --------------------------------------------------------- stop requests
\* C27: a stop request made once optimize has been entered stays in force:
\* no step of the call withdraws it
StopRequestNeverLost ==
    [][(pc # "idle" /\ stop_requested) => stop_requested']_vars

\* C28: in an uncancelled grid-search run with an active parameter every
\* generated grid is non-empty, every phase evaluates at least one candidate
\* and the returned best score is the finite score of an evaluated candidate
EachPhaseEvaluatesACandidate ==
    (cfg.kind = "grid" /\ ~stop_requested /\ cfg.max_iterations >= 1
        /\ Len(param_names) > 0) =>
       /\ (GridsGenerated("Coarse") \/ GridsGenerated("Fine")) =>
             \A j \in 1..Len(param_names) : Len(param_values[j]) > 0
       /\ pc = "gs_phase_end" => Len(phase_evaluated) >= 1
       /\ pc = "done" =>
             /\ result.best_score > NegInf
             /\ \E i \in 1..Len(phase_evaluated) :
                   /\ phase_evaluated[i] = result.best_params
                   /\ evaluate(phase_evaluated[i]) = result.best_score

\* C29: the best score either optimizer returns is the score of the returned
\* best parameters
ReturnedScoreIsScoreOfReturnedParams ==
    pc = "done" => result.best_score = evaluate(result.best_params)

\* ------------------------------------------ parameters outside the search
\* the assignment the caller passed to optimize
CallerParams == cfg.scenario.current_params

\* the (filter, parameter) pair has no entry in the bounds registry
Unregistered(f, k) == f \notin DOMAIN bounds \/ ~HasParam(bounds, f, k)

\* the assignment has the caller's filters and parameters, and the caller's
\* value for every parameter without a registry entry
KeepsCallerValues(params) ==
    /\ DOMAIN params = DOMAIN CallerParams
    /\ \A f \in DOMAIN CallerParams :
          /\ DOMAIN params[f] = DOMAIN CallerParams[f]
          /\ \A k \in DOMAIN CallerParams[f] :
                Unregistered(f, k) => params[f][k] = CallerParams[f][k]

\* C30: every candidate either optimizer evaluates and the best parameters it
\* returns keep the caller's value of each parameter without a registry
\* entry and of each filter absent from the registry
UnregisteredParamsUntouched ==
    /\ pc \in {"hc_eval", "gs_eval"} => KeepsCallerValues(test_params)
    /\ \A i \in 1..Len(sweep_log) : KeepsCallerValues(TriedAssignment(i))
    /\ \A i \in 1..Len(phase_evaluated) :
          KeepsCallerValues(phase_evaluated[i])
    /\ pc = "done" => KeepsCallerValues(result.best_params)

\* a grid-search run that changed a registered parameter of a filter which
\* also has a parameter the registry does not know
ChangedBesideUnregistered ==
    /\ cfg.kind = "grid"
    /\ pc = "done"
    /\ Len(phase_evaluated) > 0
    /\ \E f \in DOMAIN CallerParams :
          /\ f \in DOMAIN bounds
          /\ \E k \in DOMAIN CallerParams[f] : Unregistered(f, k)
          /\ \E k \in DOMAIN CallerParams[f] :
                result.best_params[f][k] # CallerParams[f][k]

====
